---- MODULE Spec2Model ----
(***************************************************************************)
(* Facility discovery and ranking engine of the antivenom server:         *)
(* app/routers/antivenom.py (the two request handlers), app/utils/db.py   *)
(* (the repository queries) and app/utils/osrm.py (the distance           *)
(* resolver).                                                              *)
(*                                                                         *)
(* Units.  Coordinates are in tenths of a degree, distance_km in          *)
(* hundredths of a kilometre (the code rounds distance_km to 2 places),   *)
(* distance_meters in whole metres, durations in whole seconds, dates in  *)
(* days.  None is the Python None of an optional number.                  *)
(***************************************************************************)
EXTENDS Integers, Sequences, FiniteSets, TLC

VARIABLES db, globals, task, lastRoute

vars == <<db, globals, task, lastRoute>>

\* ------------------------------------------------------------------ bounds
MaxFac == 6
MaxStock == 3

\* --------------------------------------------------------------- constants
None == -1
NoneStr == "None"
Today == 2
FallbackLimit == 5
max_retries == 3
EarthRadiusKm == 6371
FallbackSpeedKmh == 50
FinderDefaultMaxKm == 10000
ListingDefaultMaxKm == 20000

Slots == {1, 2}

\* ------------------------------------------------------------- coordinates
\* A stored coordinate is null, a number, or a numeric text (a value that is
\* truthy and formats into the routing URL, but is not a real number for
\* math.radians).
Num(v) == [kind |-> "num", val |-> v]
Txt(v) == [kind |-> "text", val |-> v]
NullCoord == [kind |-> "null", val |-> 0]

\* Python truthiness of a coordinate: None and 0 are falsy.
Truthy(c) == c.kind = "text" \/ (c.kind = "num" /\ c.val # 0)

Abs(x) == IF x < 0 THEN -x ELSE x

\* round(x / d) to the nearest integer, ties to even (Python round()).
RoundHalfEven(x, d) ==
    LET q == x \div d
        r == 2 * (x % d)
    IN  IF r < d THEN q
        ELSE IF r > d THEN q + 1
        ELSE IF q % 2 = 0 THEN q ELSE q + 1

\* ---------------------------------------------------------- backing store
\* The catalogue tables are fixed; the facilities and stock tables vary.
\*   snakes:                  1 "cobra", 2 "viper"
\*   antivenom_types:         1 polyvalent, 2 monovalent
\*   antivenoms:              1 polyvalent, 2 monovalent, 3 monovalent with a
\*                            null product_name
\*   antivenom_snake_targets: antivenoms 1, 2 and 3 target snake 1; no
\*                            antivenom targets snake 2
SnakesTable == << [snake_id |-> 1, common_name |-> "cobra"],
                  [snake_id |-> 2, common_name |-> "viper"] >>

AntivenomTypesTable == << [type_id |-> 1, type_name |-> "polyvalent"],
                          [type_id |-> 2, type_name |-> "monovalent"] >>

AntivenomsTable ==
    << [antivenom_id |-> 1, product_name |-> "pcav", type_id |-> 1],
       [antivenom_id |-> 2, product_name |-> "mono-k", type_id |-> 2],
       [antivenom_id |-> 3, product_name |-> NoneStr, type_id |-> 2] >>

SnakeTargetsTable == << [antivenom_id |-> 1, snake_id |-> 1],
                        [antivenom_id |-> 2, snake_id |-> 1],
                        [antivenom_id |-> 3, snake_id |-> 1] >>

\* Base latitude of facility i (tenths of a degree); facilities 1 and 3 are
\* equally far from every user on their meridian.
BaseLat(i) == CASE i = 1 -> 141
                [] i = 2 -> 155
                [] i = 3 -> 141
                [] i = 4 -> 143
                [] i = 5 -> 142
                [] i = 6 -> 139
                [] OTHER -> 140 + i
\* Longitude of the meridian the model's points lie on (121.0 degrees).
Meridian == Num(1210)

FacilityDefects ==
    {"lat_null", "lon_null", "lat_zero", "lon_zero", "lat_text", "name_null"}

\* Row i of the facilities table; d is the defect of that row, or "none".
FacilityRow(i, d) ==
    [facility_id |-> i,
     latitude  |-> CASE d = "lat_null" -> NullCoord
                     [] d = "lat_zero" -> Num(0)
                     [] d = "lat_text" -> Txt(BaseLat(i))
                     [] OTHER -> Num(BaseLat(i)),
     longitude |-> CASE d = "lon_null" -> NullCoord
                     [] d = "lon_zero" -> Num(0)
                     [] OTHER -> Meridian,
     facility_name |-> IF d = "name_null" THEN NoneStr ELSE "facility"]

\* A facilities table of n rows in which row k (if any) has defect d.
FacilityTable(n, k, d) ==
    [i \in 1..n |-> FacilityRow(i, IF i = k THEN d ELSE "none")]

\* Stock rows: the first two rows belong to facility 1 (two products of one
\* facility), the following ones to facility 2.
StockFacility(j) == IF j <= 2 THEN 1 ELSE 2
StockAntivenom(j) == IF j % 2 = 1 THEN 1 ELSE 2

StockDefects == {"qty_zero", "exp_past", "exp_today", "exp_future", "antivenom_3"}

StockRow(j, d) ==
    [stock_id |-> j,
     facility_id |-> StockFacility(j),
     antivenom_id |-> IF d = "antivenom_3" THEN 3 ELSE StockAntivenom(j),
     quantity |-> IF d = "qty_zero" THEN 0 ELSE 3,
     expiration_date |-> CASE d = "exp_past" -> Today - 1
                           [] d = "exp_today" -> Today
                           [] d = "exp_future" -> Today + 1
                           [] OTHER -> None]

\* A stock table of n rows in which row k (if any) deviates by d.
StockTable(n, k, d) ==
    [j \in 1..n |-> StockRow(j, IF j = k THEN d ELSE "none")]

\* The backing stores of the model.  Stocked stores: up to MaxStock stock rows
\* (one of them may deviate) over the facilities they refer to, one of which
\* may be defective.  Unstocked stores: up to MaxFac facilities, the first of
\* which may be defective, and no stock.
StockedStores ==
    { [facilities |-> FacilityTable(n, k, d), stock |-> StockTable(m, j, e)] :
        n \in 0..2, k \in 0..2, d \in FacilityDefects,
        m \in 0..MaxStock, j \in 0..MaxStock, e \in StockDefects }

UnstockedStores ==
    { [facilities |-> FacilityTable(n, k, d), stock |-> << >>] :
        n \in 3..MaxFac, k \in 0..1, d \in FacilityDefects }

Stores == StockedStores \cup UnstockedStores

\* ------------------------------------------------------------ app/utils/db
\* A repository call returns rows or raises.
Returned(rows) == [raised |-> FALSE, rows |-> rows]
Raised == [raised |-> TRUE, rows |-> << >>]

SeqToSet(s) == { s[i] : i \in DOMAIN s }

\* init_db: the Supabase client is created and the asyncpg pool is left None.
init_db == [supabase |-> "client", db_pool |-> NoneStr, osrm_client |-> NoneStr]

\* get_db_connection: raises when the Supabase client is missing, and
\* otherwise acquires from db_pool, which raises when db_pool is None.
get_db_connection_raises(g) == g.supabase = NoneStr \/ g.db_pool = NoneStr

\* str.lower() on the names of the model.
Lower(name) == CASE name = "Cobra" -> "cobra"
                 [] name = "PCAV" -> "pcav"
                 [] OTHER -> name

\* A lookup that answers with the first snake of the table, whatever the name.
get_snake_by_common_name_any_name(common_name, up) ==
    IF ~up THEN Raised ELSE Returned(<< SnakesTable[1] >>)

\* One attempt of get_snake_by_common_name: ilike on common_name; the first
\* matching row, or None.  up is whether the backing store answers.
get_snake_by_common_name(common_name, up) ==
    LET hits == SelectSeq(SnakesTable,
                          LAMBDA r : Lower(r.common_name) = Lower(common_name))
    IN  IF ~up THEN Raised
        ELSE IF Len(hits) > 0 THEN Returned(<< hits[1] >>)
        ELSE Returned(<< >>)

\* An expiration check that lets a row through on its expiration day.
IsExpired_strictly_before(exp_date) == exp_date # None /\ exp_date < Today

\* The expiration check of the Supabase paths: a dated row is skipped when
\* its date is today or earlier.
IsExpired(exp_date) == exp_date # None /\ exp_date <= Today

\* The "process and format results" loop shared by the two Supabase queries:
\* rows whose facility or antivenom is not in the lookups and expired rows
\* are skipped, the others are joined in the order of the stock rows.
RECURSIVE FormatStock(_, _)
FormatStock(store, stocks) ==
    IF stocks = << >> THEN << >>
    ELSE
      LET stock == Head(stocks)
          fs == SelectSeq(store.facilities,
                          LAMBDA f : f.facility_id = stock.facility_id)
          avs == SelectSeq(AntivenomsTable,
                           LAMBDA a : a.antivenom_id = stock.antivenom_id)
          rest == FormatStock(store, Tail(stocks))
      IN  IF fs = << >> \/ avs = << >> THEN rest
          ELSE IF IsExpired(stock.expiration_date) THEN rest
          ELSE << [facility_id |-> fs[1].facility_id,
                   facility_name |-> fs[1].facility_name,
                   latitude |-> fs[1].latitude,
                   longitude |-> fs[1].longitude,
                   antivenom_id |-> avs[1].antivenom_id,
                   antivenom_name |-> avs[1].product_name,
                   quantity |-> stock.quantity,
                   expiration_date |-> stock.expiration_date] >> \o rest

\* A by-snake query that answers from the store only until the routing
\* client of the process exists, and with no rows afterwards.
DatabaseManager_get_facilities_with_antivenom_once(store, g, snake_id, up) ==
    IF ~up THEN Raised
    ELSE IF g.osrm_client # NoneStr THEN Returned(<< >>)
    ELSE Returned(FormatStock(store,
             SelectSeq(store.stock,
                 LAMBDA r : /\ r.quantity >= 0
                            /\ \E x \in SeqToSet(SnakeTargetsTable) :
                                   x.snake_id = snake_id
                                   /\ x.antivenom_id = r.antivenom_id)))

\* A by-snake query that answers a failure of the backing store with no rows.
DatabaseManager_get_facilities_with_antivenom_swallows(store, g, snake_id, up) ==
    IF ~up THEN Returned(<< >>)
    ELSE Returned(FormatStock(store,
             SelectSeq(store.stock,
                 LAMBDA r : /\ r.quantity >= 0
                            /\ \E x \in SeqToSet(SnakeTargetsTable) :
                                   x.snake_id = snake_id
                                   /\ x.antivenom_id = r.antivenom_id)))

\* DatabaseManager.get_facilities_with_antivenom(snake_id): antivenoms that
\* target the snake, their stock rows with quantity >= 0, joined.  On a
\* failure the asyncpg retry needs db_pool, which is None, so it re-raises.
DatabaseManager_get_facilities_with_antivenom(store, g, snake_id, up) ==
    LET antivenom_ids ==
            { t.antivenom_id : t \in { x \in SeqToSet(SnakeTargetsTable) :
                                         x.snake_id = snake_id } }
        facilities_stock ==
            SelectSeq(store.stock,
                      LAMBDA r : r.antivenom_id \in antivenom_ids
                                 /\ r.quantity >= 0)
    IN  IF ~up THEN Raised
        ELSE IF antivenom_ids = {} THEN Returned(<< >>)
        ELSE IF facilities_stock = << >> THEN Returned(<< >>)
        ELSE Returned(FormatStock(store, facilities_stock))

\* DatabaseManager.get_facilities_by_antivenom_type(antivenom_type): the
\* type's antivenoms, their stock rows with quantity > 0, joined.
DatabaseManager_get_facilities_by_antivenom_type(store, antivenom_type, up) ==
    LET types == SelectSeq(AntivenomTypesTable,
                           LAMBDA t : t.type_name = antivenom_type)
        antivenom_ids ==
            { a.antivenom_id : a \in { x \in SeqToSet(AntivenomsTable) :
                                         x.type_id = types[1].type_id } }
        facilities_stock ==
            SelectSeq(store.stock,
                      LAMBDA r : r.antivenom_id \in antivenom_ids
                                 /\ r.quantity > 0)
    IN  IF ~up THEN Raised
        ELSE IF types = << >> THEN Returned(<< >>)
        ELSE IF antivenom_ids = {} THEN Returned(<< >>)
        ELSE IF facilities_stock = << >> THEN Returned(<< >>)
        ELSE Returned(FormatStock(store, facilities_stock))

\* The rows the SQL query of get_facilities_with_antivenom_by_name selects:
\* live stock of the products whose name contains the text, whatever the
\* case (the names of the model match as a whole or not at all).
\* DatabaseManager.get_facilities_with_antivenom_by_name(antivenom_name) runs
\* that query on a connection taken with get_db_connection.
RowsByName(store, antivenom_name) ==
    LET matching ==
            { a.antivenom_id : a \in { x \in SeqToSet(AntivenomsTable) :
                  x.product_name # NoneStr
                  /\ Lower(x.product_name) = Lower(antivenom_name) } }
        live == SelectSeq(store.stock,
                   LAMBDA r : r.antivenom_id \in matching
                              /\ r.quantity > 0
                              /\ (r.expiration_date = None
                                  \/ r.expiration_date > Today))
    IN  FormatStock(store, live)

DatabaseManager_get_facilities_with_antivenom_by_name(store, g, antivenom_name, up) ==
    IF get_db_connection_raises(g) THEN Raised
    ELSE IF ~up THEN Raised
    ELSE Returned(RowsByName(store, antivenom_name))

\* DatabaseManager.get_all_facilities(): every row of the facilities table.
DatabaseManager_get_all_facilities(store, up) ==
    IF ~up THEN Raised ELSE Returned(store.facilities)

\* ---------------------------------------------------------- app/utils/osrm
\* What the routing provider can do with one request.
OsrmOutcomes ==
    {"ok", "timeout", "http_error", "code_not_ok", "no_routes",
     "no_distance", "no_duration", "bad_distance"}

\* Great-circle arc of d tenths of a degree on a sphere of radius 6371 km, in
\* metres (pi taken as 355/113).
ArcMeters(d) ==
    LET a == EarthRadiusKm * 355 * d       \* metres = a * 10 / (113 * 18)
    IN  5 * (a \div 1017) + (5 * (a % 1017)) \div 1017

IsReal(c) == c.kind = "num"

\* calculate_straight_line_distance raises when math.radians gets a value
\* that is not a real number.
StraightLineRaises(lat1, lon1, lat2, lon2) ==
    ~(IsReal(lat1) /\ IsReal(lon1) /\ IsReal(lat2) /\ IsReal(lon2))

\* calculate_straight_line_distance, in metres: the haversine formula, which
\* on one meridian is the arc of the angle between the two points.  The
\* points of the model that reach the resolver lie on one meridian.
calculate_straight_line_distance(lat1, lon1, lat2, lon2) ==
    CASE lon1.val = lon2.val -> ArcMeters(Abs(lat2.val - lat1.val))

\* The route the provider answers with when it answers: the driving distance
\* between the two points (half as long again as the arc) at 60 km/h.  The
\* coordinates reach the provider as text in the URL.
OsrmRouteMeters(start_lat, start_lon, end_lat, end_lon) ==
    (3 * calculate_straight_line_distance(start_lat, start_lon, end_lat, end_lon)) \div 2
OsrmRouteSeconds(start_lat, start_lon, end_lat, end_lon) ==
    (3 * OsrmRouteMeters(start_lat, start_lon, end_lat, end_lon)) \div 50

FailedRoute(error) ==
    [success |-> FALSE, fallback |-> FALSE, note |-> NoneStr, error |-> error,
     distance_km |-> None, duration_seconds |-> None]

\* get_route_info: outcome is what the provider did.  A route object without
\* "distance" or "duration" reads as 0 (route.get(..., 0)).
get_route_info(outcome, start_lat, start_lon, end_lat, end_lon) ==
    LET distance_meters ==
            IF outcome = "no_distance" THEN 0
            ELSE OsrmRouteMeters(start_lat, start_lon, end_lat, end_lon)
        duration_seconds ==
            IF outcome = "no_duration" THEN 0
            ELSE OsrmRouteSeconds(start_lat, start_lon, end_lat, end_lon)
    IN  CASE outcome = "timeout" -> FailedRoute("Routing service timeout")
          [] outcome = "http_error" -> FailedRoute("Routing service error")
          [] outcome \in {"code_not_ok", "no_routes", "bad_distance"} ->
                 FailedRoute("str(e)")
          [] OTHER ->
                 [success |-> TRUE, fallback |-> FALSE, note |-> NoneStr,
                  error |-> NoneStr,
                  distance_km |-> RoundHalfEven(distance_meters, 10),
                  duration_seconds |-> duration_seconds]

\* A resolver that hands back what get_route_info returned, estimate or not.
get_route_with_fallback_no_estimate(outcome, start_lat, start_lon, end_lat, end_lon) ==
    get_route_info(outcome, start_lat, start_lon, end_lat, end_lon)

\* get_route_with_fallback: the provider's route when get_route_info
\* succeeded, else the straight-line estimate at 50 km/h, else (the estimate
\* raised) a failure without distance.
get_route_with_fallback(outcome, start_lat, start_lon, end_lat, end_lon) ==
    LET route_info == get_route_info(outcome, start_lat, start_lon, end_lat, end_lon)
        straight_distance ==
            calculate_straight_line_distance(start_lat, start_lon, end_lat, end_lon)
    IN  IF route_info.success THEN route_info
        ELSE IF StraightLineRaises(start_lat, start_lon, end_lat, end_lon)
             THEN FailedRoute("Unable to calculate distance")
        ELSE [success |-> TRUE, fallback |-> TRUE, note |-> "estimated",
              error |-> NoneStr,
              distance_km |-> RoundHalfEven(straight_distance, 10),
              duration_seconds |->
                  (straight_distance * (3600 \div FallbackSpeedKmh)) \div 1000]

\* A get_osrm_client that makes a new client on every call.
get_osrm_client_always_new(g) ==
    [g EXCEPT !.osrm_client = IF @ = "client" THEN "client again" ELSE "client"]

\* get_osrm_client: the module-level client is created on first use.
get_osrm_client(g) ==
    IF g.osrm_client = NoneStr THEN [g EXCEPT !.osrm_client = "client"] ELSE g

\* ------------------------------------------------------- app/models/schemas
\* AntivenomInfo(...): antivenom_name is a required str.
AntivenomInfoRaises(row) == row.antivenom_name = NoneStr
AntivenomInfo(row) ==
    [antivenom_id |-> row.antivenom_id,
     quantity |-> row.quantity,
     expiration_date |-> row.expiration_date]

\* FacilityInfo(...): facility_name is a required str; route_info is None
\* (the empty sequence) unless the resolver reported success.
FacilityInfoRaises(facility) == facility.facility_name = NoneStr
FacilityInfo(facility, antivenoms, route_info) ==
    [facility_id |-> facility.facility_id,
     latitude |-> facility.latitude,
     longitude |-> facility.longitude,
     antivenoms |-> antivenoms,
     route_info |-> IF route_info.success THEN << route_info >> ELSE << >>]

NoResponse ==
    [status |-> 0, message |-> "", facilities_found |-> 0,
     facilities |-> << >>, nearest |-> None, search_radius_km |-> None]

HTTPException(status_code) == [NoResponse EXCEPT !.status = status_code]

\* AntivenomFinderResponse / FacilityListResponse: search_radius_km is a
\* required float, so building the envelope raises when it is None.
ResponseRaises(request) == request.max_distance_km = None
Response(request, message, facilities, nearest) ==
    [status |-> 200, message |-> message,
     facilities_found |-> Len(facilities), facilities |-> facilities,
     nearest |-> nearest, search_radius_km |-> request.max_distance_km]

\* An envelope built inside the handler's outer try: a raise becomes a 500.
Envelope(request, message, facilities, nearest) ==
    IF ResponseRaises(request) THEN HTTPException(500)
    ELSE Response(request, message, facilities, nearest)

\* ------------------------------------------------- app/routers/antivenom
\* list.sort(key=lambda x: x["distance_km"]): a stable sort; comparing None
\* with anything raises, and every element of a list of two or more is
\* compared.
SortRaises(items) ==
    Len(items) >= 2 /\ \E i \in DOMAIN items : items[i].distance_km = None

\* An insertion that puts an element before those equal to it.
RECURSIVE Insert_before_equal(_, _)
Insert_before_equal(sorted, x) ==
    IF sorted = << >> THEN << x >>
    ELSE IF x.distance_km <= Head(sorted).distance_km THEN << x >> \o sorted
    ELSE << Head(sorted) >> \o Insert_before_equal(Tail(sorted), x)

RECURSIVE Insert(_, _)
Insert(sorted, x) ==
    IF sorted = << >> THEN << x >>
    ELSE IF x.distance_km < Head(sorted).distance_km THEN << x >> \o sorted
    ELSE << Head(sorted) >> \o Insert(Tail(sorted), x)

\* A sort that leaves the list as it is.
SortByDistance_unsorted(items) == items

RECURSIVE SortByDistance(_)
SortByDistance(items) ==
    IF Len(items) <= 1 THEN items
    ELSE Insert(SortByDistance(SubSeq(items, 1, Len(items) - 1)), items[Len(items)])

Facilities(items) == [i \in DOMAIN items |-> items[i].facility]

\* A coordinate check that looks at the longitude only.
HasCoordinates_longitude_only(facility) == Truthy(facility.longitude)

\* "Skip facilities without coordinates".
HasCoordinates(facility) == Truthy(facility.latitude) /\ Truthy(facility.longitude)

\* "Filter by max distance if specified".
BeyondMaxDistance(request, route_info) ==
    /\ request.max_distance_km # None /\ request.max_distance_km # 0
    /\ route_info.distance_km # None /\ route_info.distance_km # 0
    /\ route_info.distance_km > request.max_distance_km

\* Steps 4 of both handlers: sort, message, envelope.  A raise of the sort
\* reaches the outer except.
FinishPrimary(t) ==
    LET items == t.facilities_with_distance
        sorted == SortByDistance(items)
        sorted_facilities == Facilities(sorted)
    IN  [t EXCEPT !.pc = "done",
          !.response =
              IF SortRaises(items) THEN HTTPException(500)
              ELSE IF sorted_facilities # << >>
              THEN Envelope(t.request, "Found N facilities",
                            sorted_facilities, sorted[1].distance_km)
              ELSE Envelope(t.request, "No facilities found within specified distance",
                            << >>, None)]

\* The end of the finder's fallback: sort, keep the nearest 5, envelope.  A
\* raise of the sort or of the envelope reaches the inner except, which
\* builds the empty envelope (and raises to the outer except if that fails).
FinishFallback(t) ==
    LET items == t.facilities_with_distance
        sorted == SortByDistance(items)
        nearest_facilities ==
            Facilities(SubSeq(sorted, 1,
                IF Len(sorted) < FallbackLimit THEN Len(sorted) ELSE FallbackLimit))
    IN  [t EXCEPT !.pc = "done",
          !.response =
              IF SortRaises(items)
              THEN Envelope(t.request,
                     "No facilities found with antivenom for this snake species",
                     << >>, None)
              ELSE Envelope(t.request,
                     "No facilities with specific antivenom found. Showing N nearest",
                     nearest_facilities, None)]

\* The smallest index >= i of a facility that passes the coordinate check,
\* or Len + 1: the loop continues past the others without suspending.
RECURSIVE NextWithCoordinates(_, _)
NextWithCoordinates(facilities, i) ==
    IF i > Len(facilities) THEN i
    ELSE IF HasCoordinates(facilities[i]) THEN i
    ELSE NextWithCoordinates(facilities, i + 1)

\* "Group by facility_id": one group per facility in first-seen order, with
\* the AntivenomInfo of each of its rows.
RECURSIVE GroupByFacility(_, _)
GroupByFacility(groups, rows) ==
    IF rows = << >> THEN groups
    ELSE
      LET row == Head(rows)
          known == \E k \in DOMAIN groups : groups[k].facility_id = row.facility_id
          added == IF known THEN groups
                   ELSE Append(groups, [facility_id |-> row.facility_id,
                                        facility_data |-> row,
                                        antivenoms |-> << >>])
          filled == [k \in DOMAIN added |->
                       IF added[k].facility_id = row.facility_id
                       THEN [added[k] EXCEPT !.antivenoms = Append(@, AntivenomInfo(row))]
                       ELSE added[k]]
      IN  GroupByFacility(filled, Tail(rows))

\* ------------------------------------------------------------- requests
UserLatitudes == { Num(140) }
UserLongitudes == { Meridian }

FinderRequests ==
    [snake_common_name : {NoneStr, "Cobra", "Asp"},
     snake_id : {None, 1, 2},
     antivenom_type : {NoneStr, "monovalent", "trivalent"},
     antivenom_name : {NoneStr},
     user_latitude : UserLatitudes,
     user_longitude : UserLongitudes,
     max_distance_km : {None, FinderDefaultMaxKm}]

ListingRequests ==
    [snake_common_name : {NoneStr},
     snake_id : {None, 1, 2},
     antivenom_type : {NoneStr},
     antivenom_name : {NoneStr, "PCAV"},
     user_latitude : UserLatitudes,
     user_longitude : UserLongitudes,
     max_distance_km : {None, ListingDefaultMaxKm}]

NoRequest ==
    [snake_common_name |-> NoneStr, snake_id |-> None, antivenom_type |-> NoneStr,
     antivenom_name |-> NoneStr, user_latitude |-> Num(0), user_longitude |-> Num(0),
     max_distance_km |-> None]

\* The locals of one running handler, with the trace of what it asked of the
\* repository (queries) and of the resolver (calls).
NewTask(op, request) ==
    [pc |-> "idle", op |-> op, request |-> request, snake_id |-> None,
     attempt |-> 0, retry_delays |-> << >>,
     facilities_data |-> << >>, facility_groups |-> << >>,
     all_facilities |-> << >>, i |-> 0,
     facilities_with_distance |-> << >>, response |-> NoResponse,
     queries |-> << >>, calls |-> << >>]

IdleTask == NewTask("", NoRequest)
OffTask == [IdleTask EXCEPT !.pc = "off"]

NoRoute ==
    [outcome |-> "none", end_latitude |-> NullCoord, end_longitude |-> NullCoord,
     start_latitude |-> NullCoord, start_longitude |-> NullCoord,
     result |-> FailedRoute("")]

Init ==
    /\ db \in Stores
    /\ globals = init_db
    /\ task = [s \in Slots |-> IF s = 1 THEN IdleTask ELSE OffTask]
    /\ lastRoute = NoRoute

Done(t, response) == [t EXCEPT !.pc = "done", !.response = response]

\* The trace entry of one repository call and its answer; up is whether the
\* backing store answered the call.
Asked(t, query, up, r) ==
    [t EXCEPT !.queries = Append(@, [query |-> query, up |-> up,
                                     raised |-> r.raised, rows |-> Len(r.rows)])]

\* ---------------------------------------------------------- find_antivenom
\* Lines 68-136 up to the first await: validation and the choice of branch.
\* The _local operators give the locals of a handler after one of its steps;
\* the actions apply them to the handler of a slot.
find_antivenom_local(request) ==
    LET t == NewTask("finder", request)
        has_name == request.snake_common_name # NoneStr
        has_id == request.snake_id # None /\ request.snake_id # 0
        has_type == request.antivenom_type # NoneStr
    IN  IF ~has_name /\ ~has_id /\ ~has_type THEN Done(t, HTTPException(400))
        ELSE IF has_id \/ has_name
        THEN IF has_name /\ ~has_id
             THEN [t EXCEPT !.pc = "lookup"]
             ELSE [t EXCEPT !.pc = "stock_snake", !.snake_id = request.snake_id]
        ELSE IF request.antivenom_type \notin {"polyvalent", "monovalent"}
             THEN Done(t, HTTPException(400))
             ELSE [t EXCEPT !.pc = "stock_type"]

find_antivenom(s, request) ==
    /\ task[s].pc = "idle"
    /\ task' = [task EXCEPT ![s] = find_antivenom_local(request)]
    /\ UNCHANGED <<db, globals, lastRoute>>

\* A lookup that answers None, after its last failed attempt, instead of
\* re-raising.
await_get_snake_by_common_name_none_on_failure(s, up) ==
    /\ task[s].pc = "lookup"
    /\ LET r == get_snake_by_common_name(task[s].request.snake_common_name, up)
           t == Asked(task[s], "get_snake_by_common_name", up, r)
           retry_delay == IF t.attempt = 0 THEN 1 ELSE 2 * t.retry_delays[t.attempt]
       IN  task' = [task EXCEPT ![s] =
             IF r.raised
             THEN IF t.attempt < max_retries - 1
                  THEN [t EXCEPT !.attempt = @ + 1,
                                 !.retry_delays = Append(@, retry_delay)]
                  ELSE Done(t, HTTPException(404))
             ELSE IF r.rows # << >>
                  THEN [t EXCEPT !.pc = "stock_snake", !.snake_id = r.rows[1].snake_id]
                  ELSE Done(t, HTTPException(404))]
    /\ UNCHANGED <<db, globals, lastRoute>>

\* Lines 85-102 with db.py 106-134: one attempt of the name lookup.  A failed
\* attempt sleeps retry_delay and doubles it; the last one re-raises (500).
await_get_snake_by_common_name_local(t0, up) ==
    LET r == get_snake_by_common_name(t0.request.snake_common_name, up)
        t == Asked(t0, "get_snake_by_common_name", up, r)
        retry_delay == IF t.attempt = 0 THEN 1 ELSE 2 * t.retry_delays[t.attempt]
    IN  IF r.raised
        THEN IF t.attempt < max_retries - 1
             THEN [t EXCEPT !.attempt = @ + 1,
                            !.retry_delays = Append(@, retry_delay)]
             ELSE Done(t, HTTPException(500))
        ELSE IF r.rows # << >>
             THEN [t EXCEPT !.pc = "stock_snake", !.snake_id = r.rows[1].snake_id]
             ELSE Done(t, HTTPException(404))

await_get_snake_by_common_name(s, up) ==
    /\ task[s].pc = "lookup"
    /\ task' = [task EXCEPT ![s] = await_get_snake_by_common_name_local(task[s], up)]
    /\ UNCHANGED <<db, globals, lastRoute>>

\* The finder's loop over facilities_data from row i on, up to the next
\* resolver call or through step 4.
FinderLoop(t, i) ==
    LET j == NextWithCoordinates(t.facilities_data, i)
    IN  IF j > Len(t.facilities_data) THEN FinishPrimary(t)
        ELSE [t EXCEPT !.pc = "resolve", !.i = j]

\* An empty check that degrades whether or not an antivenom_type was given.
FinderAfterStock_ignores_type(t) ==
    IF t.facilities_data = << >> THEN [t EXCEPT !.pc = "all_facilities"]
    ELSE FinderLoop(t, 1)

\* Lines 138-163 and 273-280: what follows the stock query of the finder.
FinderAfterStock(t) ==
    IF t.facilities_data = << >>
    THEN IF t.request.antivenom_type # NoneStr
         THEN Done(t, Envelope(t.request, "No facilities found with TYPE antivenom",
                               << >>, None))
         ELSE [t EXCEPT !.pc = "all_facilities"]
    ELSE FinderLoop(t, 1)

\* Lines 107-114 / 127-136: the finder's stock query and what follows it.
find_antivenom_stock_local(t0, store, g, up) ==
    LET by_snake == t0.pc = "stock_snake"
        r == IF by_snake
             THEN DatabaseManager_get_facilities_with_antivenom(
                      store, g, t0.snake_id, up)
             ELSE DatabaseManager_get_facilities_by_antivenom_type(
                      store, t0.request.antivenom_type, up)
        t == Asked(t0, IF by_snake THEN "get_facilities_with_antivenom"
                       ELSE "get_facilities_by_antivenom_type", up, r)
    IN  IF r.raised THEN Done(t, HTTPException(500))
        ELSE FinderAfterStock([t EXCEPT !.facilities_data = r.rows])

find_antivenom_stock(s, up) ==
    /\ task[s].op = "finder"
    /\ task[s].pc \in {"stock_snake", "stock_type"}
    /\ LET after == find_antivenom_stock_local(task[s], db, globals, up)
       IN  /\ task' = [task EXCEPT ![s] = after]
           /\ globals' = IF after.facilities_data # << >>
                         THEN get_osrm_client(globals) ELSE globals
    /\ UNCHANGED <<db, lastRoute>>

\* The resolver call of a handler for one facility.
Resolve(request, facility, outcome) ==
    get_route_with_fallback(outcome, request.user_latitude, request.user_longitude,
                            facility.latitude, facility.longitude)

\* The provider outcomes the handlers are run against: a route, a route
\* without distance and two failures.  Every failure of the routing call
\* reaches a handler as the same resolver result (get_route_with_fallback
\* drops the error), and a route without duration differs from a full route
\* only in a field no handler reads.
HandlerOutcomes == {"ok", "timeout", "http_error", "no_distance"}

\* Whether the routing-provider call itself failed.
RoutingFailed(outcome) ==
    ~get_route_info(outcome, Num(0), Num(0), Num(0), Num(0)).success

Called(t, facility, outcome) ==
    [t EXCEPT !.calls = Append(@, [facility_id |-> facility.facility_id,
                                   failed |-> RoutingFailed(outcome)])]

Ranked(facility_info, route_info) ==
    [facility |-> facility_info, distance_km |-> route_info.distance_km]

\* Lines 287-336: the resolver answers for row i; the row is filtered by
\* distance, turned into a FacilityInfo with its one AntivenomInfo (a raise
\* skips the row) and the loop goes on.
find_antivenom_resolve_local(t0, outcome) ==
    LET facility_data == t0.facilities_data[t0.i]
        route_info == Resolve(t0.request, facility_data, outcome)
        t == Called(t0, facility_data, outcome)
        kept == [t EXCEPT !.facilities_with_distance = Append(@,
                   Ranked(FacilityInfo(facility_data,
                                       << AntivenomInfo(facility_data) >>,
                                       route_info),
                          route_info))]
    IN  IF BeyondMaxDistance(t.request, route_info) THEN FinderLoop(t, t.i + 1)
        ELSE IF AntivenomInfoRaises(facility_data) THEN FinderLoop(t, t.i + 1)
        ELSE IF FacilityInfoRaises(facility_data) THEN FinderLoop(t, t.i + 1)
        ELSE FinderLoop(kept, t.i + 1)

find_antivenom_resolve(s, outcome) ==
    /\ task[s].op = "finder" /\ task[s].pc = "resolve"
    /\ task' = [task EXCEPT ![s] = find_antivenom_resolve_local(task[s], outcome)]
    /\ UNCHANGED <<db, globals, lastRoute>>

\* The fallback's loop over all_facilities from row i on.
FallbackLoop(t, i) ==
    LET j == NextWithCoordinates(t.all_facilities, i)
    IN  IF j > Len(t.all_facilities) THEN FinishFallback(t)
        ELSE [t EXCEPT !.pc = "fallback_resolve", !.i = j]

\* Lines 165-195 and 253-271: the all-facilities query of the fallback.  A
\* raise is caught and answered with the empty envelope.
find_antivenom_all_facilities_local(t0, store, up) ==
    LET r == DatabaseManager_get_all_facilities(store, up)
        t == Asked(t0, "get_all_facilities", up, r)
    IN  IF r.raised
        THEN Done(t, Envelope(t.request,
               "No facilities found with antivenom for this snake species",
               << >>, None))
        ELSE IF r.rows = << >>
        THEN Done(t, Envelope(t.request, "No facilities found in the system",
                              << >>, None))
        ELSE FallbackLoop([t EXCEPT !.all_facilities = r.rows], 1)

find_antivenom_all_facilities(s, up) ==
    /\ task[s].op = "finder" /\ task[s].pc = "all_facilities"
    /\ LET after == find_antivenom_all_facilities_local(task[s], db, up)
       IN  /\ task' = [task EXCEPT ![s] = after]
           /\ globals' = IF after.all_facilities # << >>
                         THEN get_osrm_client(globals) ELSE globals
    /\ UNCHANGED <<db, lastRoute>>

\* Lines 197-228: the resolver answers for facility i of the fallback; the
\* facility is listed without antivenoms (a raise skips it).
find_antivenom_fallback_resolve_local(t0, outcome) ==
    LET facility == t0.all_facilities[t0.i]
        route_info == Resolve(t0.request, facility, outcome)
        t == Called(t0, facility, outcome)
        kept == [t EXCEPT !.facilities_with_distance = Append(@,
                   Ranked(FacilityInfo(facility, << >>, route_info), route_info))]
    IN  IF FacilityInfoRaises(facility) THEN FallbackLoop(t, t.i + 1)
        ELSE FallbackLoop(kept, t.i + 1)

find_antivenom_fallback_resolve(s, outcome) ==
    /\ task[s].op = "finder" /\ task[s].pc = "fallback_resolve"
    /\ task' = [task EXCEPT ![s] =
                    find_antivenom_fallback_resolve_local(task[s], outcome)]
    /\ UNCHANGED <<db, globals, lastRoute>>

\* ------------------------------------------- get_facilities_with_antivenom
\* A listing that selects the search by snake id before the one by name.
get_facilities_with_antivenom_id_first(s, request) ==
    /\ task[s].pc = "idle"
    /\ LET t == NewTask("listing", request)
           has_name == request.antivenom_name # NoneStr
           has_id == request.snake_id # None /\ request.snake_id # 0
       IN  task' = [task EXCEPT ![s] =
             IF ~has_name /\ ~has_id THEN Done(t, HTTPException(400))
             ELSE IF has_id
             THEN [t EXCEPT !.pc = "stock_snake", !.snake_id = request.snake_id]
             ELSE [t EXCEPT !.pc = "stock_name"]]
    /\ UNCHANGED <<db, globals, lastRoute>>

\* Lines 416-447 up to the first await: validation and the choice of branch.
get_facilities_with_antivenom_local(request) ==
    LET t == NewTask("listing", request)
        has_name == request.antivenom_name # NoneStr
        has_id == request.snake_id # None /\ request.snake_id # 0
    IN  IF ~has_name /\ ~has_id THEN Done(t, HTTPException(400))
        ELSE IF has_name THEN [t EXCEPT !.pc = "stock_name"]
        ELSE [t EXCEPT !.pc = "stock_snake", !.snake_id = request.snake_id]

get_facilities_with_antivenom(s, request) ==
    /\ task[s].pc = "idle"
    /\ task' = [task EXCEPT ![s] = get_facilities_with_antivenom_local(request)]
    /\ UNCHANGED <<db, globals, lastRoute>>

\* The listing's loop over facility_groups from group i on.
ListingLoop(t, i) ==
    LET j == NextWithCoordinates(
                 [k \in DOMAIN t.facility_groups |-> t.facility_groups[k].facility_data], i)
    IN  IF j > Len(t.facility_groups) THEN FinishPrimary(t)
        ELSE [t EXCEPT !.pc = "resolve", !.i = j]

\* Lines 449-498: the empty answer, or the grouping (an AntivenomInfo that
\* raises there reaches the outer except) and the start of the loop.
ListingAfterStock(t) ==
    IF t.facilities_data = << >>
    THEN Done(t, Envelope(t.request, "No facilities found matching the criteria",
                          << >>, None))
    ELSE IF \E k \in DOMAIN t.facilities_data : AntivenomInfoRaises(t.facilities_data[k])
    THEN Done(t, HTTPException(500))
    ELSE ListingLoop([t EXCEPT !.facility_groups =
                         GroupByFacility(<< >>, t.facilities_data)], 1)

\* Lines 427-447: the listing's stock query and what follows it.
get_facilities_with_antivenom_stock_local(t0, store, g, up) ==
    LET by_name == t0.pc = "stock_name"
        r == IF by_name
             THEN DatabaseManager_get_facilities_with_antivenom_by_name(
                      store, g, t0.request.antivenom_name, up)
             ELSE DatabaseManager_get_facilities_with_antivenom(
                      store, g, t0.request.snake_id, up)
        t == Asked(t0, IF by_name THEN "get_facilities_with_antivenom_by_name"
                       ELSE "get_facilities_with_antivenom", up, r)
    IN  IF r.raised THEN Done(t, HTTPException(500))
        ELSE ListingAfterStock([t EXCEPT !.facilities_data = r.rows])

get_facilities_with_antivenom_stock(s, up) ==
    /\ task[s].op = "listing"
    /\ task[s].pc \in {"stock_snake", "stock_name"}
    /\ LET after == get_facilities_with_antivenom_stock_local(task[s], db, globals, up)
       IN  /\ task' = [task EXCEPT ![s] = after]
           /\ globals' = IF after.facility_groups # << >>
                         THEN get_osrm_client(globals) ELSE globals
    /\ UNCHANGED <<db, lastRoute>>

\* Lines 507-546: the resolver answers for group i; the group is filtered by
\* distance and turned into a FacilityInfo (a raise skips it).
get_facilities_with_antivenom_resolve_local(t0, outcome) ==
    LET group_data == t0.facility_groups[t0.i]
        facility_data == group_data.facility_data
        route_info == Resolve(t0.request, facility_data, outcome)
        t == Called(t0, facility_data, outcome)
        kept == [t EXCEPT !.facilities_with_distance = Append(@,
                   Ranked(FacilityInfo(facility_data, group_data.antivenoms,
                                       route_info),
                          route_info))]
    IN  IF BeyondMaxDistance(t.request, route_info) THEN ListingLoop(t, t.i + 1)
        ELSE IF FacilityInfoRaises(facility_data) THEN ListingLoop(t, t.i + 1)
        ELSE ListingLoop(kept, t.i + 1)

get_facilities_with_antivenom_resolve(s, outcome) ==
    /\ task[s].op = "listing" /\ task[s].pc = "resolve"
    /\ task' = [task EXCEPT ![s] =
                    get_facilities_with_antivenom_resolve_local(task[s], outcome)]
    /\ UNCHANGED <<db, globals, lastRoute>>

\* ------------------------------------------------------------------- Next
Next ==
    \E s \in Slots :
        \/ \E request \in FinderRequests : find_antivenom(s, request)
        \/ \E up \in BOOLEAN : await_get_snake_by_common_name(s, up)
        \/ \E up \in BOOLEAN : find_antivenom_stock(s, up)
        \/ \E outcome \in HandlerOutcomes : find_antivenom_resolve(s, outcome)
        \/ \E up \in BOOLEAN : find_antivenom_all_facilities(s, up)
        \/ \E outcome \in HandlerOutcomes : find_antivenom_fallback_resolve(s, outcome)
        \/ \E request \in ListingRequests : get_facilities_with_antivenom(s, request)
        \/ \E up \in BOOLEAN : get_facilities_with_antivenom_stock(s, up)
        \/ \E outcome \in HandlerOutcomes : get_facilities_with_antivenom_resolve(s, outcome)

Spec == Init /\ [][Next]_vars

\* ------------------------------------------------- the resolver on its own
\* One call of get_route_with_fallback with the arguments its callers pass:
\* the start is a validated float, the end a stored coordinate that passed
\* the coordinate check.  lastRoute keeps the call and its result.
StartLatitudes == { Num(v) : v \in {0, 139, 140, 141} }
EndLatitudes == { Num(v) : v \in {139, 140, 141, 143, 155} }
                    \cup { Txt(v) : v \in {139, 141, 155} }
EndLongitudes == { Meridian, Txt(Meridian.val) }

call_get_route_with_fallback(outcome, start_lat, start_lon, end_lat, end_lon) ==
    /\ lastRoute' =
           [outcome |-> outcome,
            start_latitude |-> start_lat, start_longitude |-> start_lon,
            end_latitude |-> end_lat, end_longitude |-> end_lon,
            result |-> get_route_with_fallback(outcome, start_lat, start_lon,
                                               end_lat, end_lon)]
    /\ UNCHANGED <<db, globals, task>>

InitRoute ==
    /\ db = [facilities |-> << >>, stock |-> << >>]
    /\ globals = get_osrm_client(init_db)
    /\ task = [s \in Slots |-> OffTask]
    /\ lastRoute = NoRoute

NextRoute ==
    \E outcome \in OsrmOutcomes, start_lat \in StartLatitudes,
       start_lon \in UserLongitudes, end_lat \in EndLatitudes,
       end_lon \in EndLongitudes :
        call_get_route_with_fallback(outcome, start_lat, start_lon, end_lat, end_lon)

SpecRoute == InitRoute /\ [][NextRoute]_vars

\* ===================================================================
\* Properties
\* ===================================================================
Answered(s) == task[s].pc = "done" /\ task[s].response.status = 200

FoundMessage == "Found N facilities"
NearestMessage == "No facilities with specific antivenom found. Showing N nearest"

\* The stored row of a facility (facility ids are unique in the table).
StoredFacility(id) ==
    CHOOSE f \in SeqToSet(db.facilities) : f.facility_id = id

MissingCoordinates(facility) ==
    facility.latitude.kind = "null" \/ facility.longitude.kind = "null"

OnOrBeforeToday(date) == date # None /\ date <= Today

\* C1: every success envelope reports facilities_found equal to the number
\* of facilities it lists, and lists them in non-decreasing order of their
\* resolved distance_km.
C1_CountAndOrder ==
    \A s \in Slots :
        Answered(s) =>
            LET r == task[s].response
            IN  /\ r.facilities_found = Len(r.facilities)
                /\ \A i, j \in DOMAIN r.facilities :
                       (/\ i < j
                        /\ r.facilities[i].route_info # << >>
                        /\ r.facilities[j].route_info # << >>)
                       => r.facilities[i].route_info[1].distance_km
                              <= r.facilities[j].route_info[1].distance_km

\* A success envelope of two or more facilities that the sort reordered.
C1_Witness ==
    \E s \in Slots :
        /\ Answered(s)
        /\ Len(task[s].response.facilities) >= 2
        /\ Len(task[s].response.facilities) = Len(task[s].facilities_with_distance)
        /\ task[s].response.facilities # Facilities(task[s].facilities_with_distance)

\* C5: a facility whose latitude or longitude is missing is never handed to
\* the Distance Resolver and never appears among the candidates or in a
\* result list, in the finder, the listing or the fallback.
C5_NoCoordinatesNoCandidate ==
    \A s \in Slots :
        /\ \A k \in DOMAIN task[s].calls :
               ~MissingCoordinates(StoredFacility(task[s].calls[k].facility_id))
        /\ \A k \in DOMAIN task[s].facilities_with_distance :
               ~MissingCoordinates(StoredFacility(
                    task[s].facilities_with_distance[k].facility.facility_id))
        /\ \A k \in DOMAIN task[s].response.facilities :
               /\ ~MissingCoordinates(task[s].response.facilities[k])
               /\ ~MissingCoordinates(StoredFacility(
                      task[s].response.facilities[k].facility_id))

\* A non-empty success envelope of a request whose rows (stock rows, or the
\* rows of the all-facilities query) held a facility without coordinates.
C5_Witness ==
    \E s \in Slots :
        /\ Answered(s)
        /\ task[s].response.facilities # << >>
        /\ \/ \E k \in DOMAIN task[s].facilities_data :
                  MissingCoordinates(task[s].facilities_data[k])
           \/ \E k \in DOMAIN task[s].all_facilities :
                  MissingCoordinates(task[s].all_facilities[k])

\* C6: no stock record listed under a facility has an expiration date on or
\* before today, and every facility of a non-fallback result has a stock row
\* that is not expired.
C6_NoExpiredStock ==
    \A s \in Slots :
        Answered(s) =>
            \A k \in DOMAIN task[s].response.facilities :
                LET f == task[s].response.facilities[k]
                IN  /\ \A a \in DOMAIN f.antivenoms :
                           ~OnOrBeforeToday(f.antivenoms[a].expiration_date)
                    /\ task[s].response.message = FoundMessage =>
                           \E j \in DOMAIN db.stock :
                               /\ db.stock[j].facility_id = f.facility_id
                               /\ ~OnOrBeforeToday(db.stock[j].expiration_date)

\* A non-fallback result of a search by snake 1 (every stock row matches it)
\* over a stock table that holds an expired row of a stored facility.
C6_Witness ==
    \E s \in Slots :
        /\ Answered(s)
        /\ task[s].snake_id = 1
        /\ task[s].response.message = FoundMessage
        /\ \E j \in DOMAIN db.stock :
               /\ OnOrBeforeToday(db.stock[j].expiration_date)
               /\ \E f \in DOMAIN db.facilities :
                      db.facilities[f].facility_id = db.stock[j].facility_id

\* Whether the handler in slot s asked the repository `query` and got an
\* answer (no raise), and whether that answer had no rows.
QueryAnswered(s, query) ==
    \E k \in DOMAIN task[s].queries :
        task[s].queries[k].query = query /\ ~task[s].queries[k].raised

ZeroRows(s, query) ==
    \E k \in DOMAIN task[s].queries :
        /\ task[s].queries[k].query = query
        /\ ~task[s].queries[k].raised
        /\ task[s].queries[k].rows = 0

QueryIssuedBy(t, query) ==
    \E k \in DOMAIN t.queries : t.queries[k].query = query

QueryIssued(s, query) == QueryIssuedBy(task[s], query)

WithCoordinates(facilities) ==
    SelectSeq(facilities, LAMBDA f : ~MissingCoordinates(f))

Min(a, b) == IF a < b THEN a ELSE b

\* C2: a finder request without antivenom_type whose stock query returned
\* zero rows and whose all-facilities query returned N >= 1 facilities with
\* coordinates is answered with exactly min(5, N) facilities, the nearest
\* ones in ascending order of distance, each with an empty antivenom list,
\* under the message that says nearest facilities are shown.
C2_FallbackListsNearestFive ==
    \A s \in Slots :
        LET t == task[s]
            r == t.response
            N == Len(WithCoordinates(t.all_facilities))
            listed == { r.facilities[k].facility_id : k \in DOMAIN r.facilities }
        IN  (/\ t.pc = "done" /\ t.op = "finder"
             /\ t.request.antivenom_type = NoneStr
             /\ ZeroRows(s, "get_facilities_with_antivenom")
             /\ QueryAnswered(s, "get_all_facilities")
             /\ N >= 1)
            => /\ r.status = 200
               /\ r.message = NearestMessage
               /\ Len(r.facilities) = Min(FallbackLimit, N)
               /\ \A k \in DOMAIN r.facilities : r.facilities[k].antivenoms = << >>
               /\ \A i, j \in DOMAIN r.facilities :
                      (i < j /\ r.facilities[i].route_info # << >>
                             /\ r.facilities[j].route_info # << >>)
                      => r.facilities[i].route_info[1].distance_km
                             <= r.facilities[j].route_info[1].distance_km
               /\ \A k \in DOMAIN r.facilities, x \in DOMAIN t.facilities_with_distance :
                      (/\ t.facilities_with_distance[x].facility.facility_id \notin listed
                       /\ r.facilities[k].route_info # << >>
                       /\ t.facilities_with_distance[x].distance_km # None)
                      => r.facilities[k].route_info[1].distance_km
                             <= t.facilities_with_distance[x].distance_km

\* The messages of the empty results that are not degraded.
EmptyMessages ==
    {"No facilities found within specified distance",
     "No facilities found with TYPE antivenom",
     "No facilities found matching the criteria"}

\* The messages of the finder's fallback path.
FallbackMessages ==
    {NearestMessage, "No facilities found in the system",
     "No facilities found with antivenom for this snake species"}

\* The primary search of slot s ended without a candidate.
NoCandidate(s) ==
    \/ QueryIssued(s, "get_all_facilities")
    \/ task[s].pc = "done" /\ task[s].facilities_with_distance = << >>

C4_ZeroRowsEmptyEnvelope ==
    \A s \in Slots :
        (/\ task[s].pc = "done"
         /\ \/ ZeroRows(s, "get_facilities_by_antivenom_type")
            \/ ZeroRows(s, "get_facilities_with_antivenom_by_name"))
        => /\ task[s].response.status = 200
           /\ task[s].response.facilities_found = 0
           /\ task[s].response.facilities = << >>
           /\ task[s].response.message \in EmptyMessages
           /\ ~QueryIssued(s, "get_all_facilities")
           /\ task[s].calls = << >>

\* C7: every stock record listed under a facility of a non-fallback result
\* has a quantity greater than zero.
C7_PositiveQuantity ==
    \A s \in Slots :
        (Answered(s) /\ task[s].response.message = FoundMessage)
        => \A k \in DOMAIN task[s].response.facilities :
               \A a \in DOMAIN task[s].response.facilities[k].antivenoms :
                   task[s].response.facilities[k].antivenoms[a].quantity > 0

\* The facility of call c of slot s would be listed if its routing call
\* succeeded: the envelope can be built, the provider's distance is within
\* max_distance_km (primary path) or the fallback cuts nothing, and no record
\* of the request is malformed.
WouldBeListed(s, c) ==
    LET t == task[s]
        facility == StoredFacility(t.calls[c].facility_id)
    IN  /\ t.request.max_distance_km # None
        /\ facility.facility_name # NoneStr
        /\ \A k \in DOMAIN t.facilities_data :
               ~AntivenomInfoRaises(t.facilities_data[k])
        /\ \A k \in DOMAIN t.all_facilities :
               t.all_facilities[k].facility_name # NoneStr
        /\ Len(t.all_facilities) <= FallbackLimit
        /\ t.all_facilities = << >>
             => ~BeyondMaxDistance(t.request, Resolve(t.request, facility, "ok"))

\* C8: each facility of a result has a route_info whose fallback flag and
\* note are set exactly when the routing-provider call for it failed, and
\* that carries the provider's distance when the call succeeded; a failed
\* routing call removes neither its facility nor any other from the result.
C8_FallbackFlagAndNoRemoval ==
    \A s \in Slots :
        LET t == task[s]
            r == t.response
        IN  t.pc = "done" =>
              /\ r.status = 200 =>
                   \A k \in DOMAIN r.facilities :
                       \E c \in DOMAIN t.calls :
                           LET f == r.facilities[k]
                               provider == RoundHalfEven(
                                   OsrmRouteMeters(t.request.user_latitude,
                                                   t.request.user_longitude,
                                                   f.latitude, f.longitude), 10)
                           IN  /\ t.calls[c].facility_id = f.facility_id
                               /\ f.route_info # << >>
                               /\ t.calls[c].failed <=> f.route_info[1].fallback
                               /\ t.calls[c].failed <=> f.route_info[1].note # NoneStr
                               /\ ~t.calls[c].failed
                                    => f.route_info[1].distance_km \in {provider, 0}
              /\ \A c \in DOMAIN t.calls :
                     (t.calls[c].failed /\ WouldBeListed(s, c))
                     => /\ r.status = 200
                        /\ \E k \in DOMAIN r.facilities :
                               r.facilities[k].facility_id = t.calls[c].facility_id

\* The straight-line estimate of one resolver call can be computed.
Computable(call) ==
    /\ IsReal(call.start_latitude) /\ IsReal(call.start_longitude)
    /\ IsReal(call.end_latitude) /\ IsReal(call.end_longitude)

C10_EveryFailureEstimates ==
    (/\ lastRoute.outcome \in {"timeout", "http_error", "code_not_ok",
                               "no_routes", "no_distance", "no_duration"}
     /\ Computable(lastRoute))
    => LET straight_distance ==
               calculate_straight_line_distance(
                   lastRoute.start_latitude, lastRoute.start_longitude,
                   lastRoute.end_latitude, lastRoute.end_longitude)
       IN  /\ lastRoute.result.success
           /\ lastRoute.result.fallback
           /\ lastRoute.result.distance_km = RoundHalfEven(straight_distance, 10)
           /\ lastRoute.result.duration_seconds
                  = (straight_distance * (3600 \div FallbackSpeedKmh)) \div 1000

\* The request of slot s was answered by the primary search over stock rows.
PrimaryAnswered(s) ==
    /\ Answered(s)
    /\ task[s].facilities_data # << >>
    /\ ~QueryIssued(s, "get_all_facilities")

\* C11: the number of resolver invocations of the primary assembly is the
\* number of distinct facilities, among the returned stock rows, whose
\* coordinates pass the coordinate check: a facility with k stock rows is
\* resolved once.
C11_OneResolutionPerFacility ==
    \A s \in Slots :
        PrimaryAnswered(s) =>
            Len(task[s].calls) =
                Cardinality({ task[s].facilities_data[k].facility_id :
                                k \in { x \in DOMAIN task[s].facilities_data :
                                          HasCoordinates(task[s].facilities_data[x]) } })

\* The stock records of facility id among rows, in the order of the rows.
StockRecordsOf(rows, id) ==
    LET own == SelectSeq(rows, LAMBDA row : row.facility_id = id)
    IN  [k \in DOMAIN own |-> AntivenomInfo(own[k])]

\* C12: a result lists each facility_id at most once, and the antivenom list
\* of a facility of a non-fallback result holds all the stock rows the
\* repository returned for it, in the order it returned them.
C12_OneEntryPerFacility ==
    \A s \in Slots :
        Answered(s) =>
            LET r == task[s].response
            IN  /\ \A i, j \in DOMAIN r.facilities :
                       i # j => r.facilities[i].facility_id # r.facilities[j].facility_id
                /\ r.message = FoundMessage =>
                       \A k \in DOMAIN r.facilities :
                           r.facilities[k].antivenoms
                               = StockRecordsOf(task[s].facilities_data,
                                                r.facilities[k].facility_id)

\* A stock row or facility whose processing raises.
BadRecord(row) == FacilityInfoRaises(row)
BadStockRow(row) == AntivenomInfoRaises(row) \/ FacilityInfoRaises(row)

\* C13: when the processing of a stock row or of a facility raises, the
\* request (one whose envelope can be built) is still answered with a
\* success envelope, and every facility that was assembled is in it (up to
\* the fallback's limit of five).
C13_BadRecordSkipsOnlyItself ==
    \A s \in Slots :
        LET t == task[s]
        IN  (/\ t.pc = "done"
             /\ t.request.max_distance_km # None
             /\ \/ \E k \in DOMAIN t.facilities_data : BadStockRow(t.facilities_data[k])
                \/ \E k \in DOMAIN t.all_facilities : BadRecord(t.all_facilities[k]))
            => /\ t.response.status = 200
               /\ Len(t.facilities_with_distance) <= FallbackLimit
                    => \A k \in DOMAIN t.facilities_with_distance :
                           \E i \in DOMAIN t.response.facilities :
                               t.response.facilities[i].facility_id
                                   = t.facilities_with_distance[k].facility.facility_id

\* C14: when the all-facilities query of the fallback fails or returns no
\* facility, the request is answered with a success envelope with
\* facilities_found = 0, no facility and the message that says there are no
\* facilities in the system.
C14_FallbackQueryFailureIsEmptyEnvelope ==
    \A s \in Slots :
        (/\ task[s].pc = "done"
         /\ \E k \in DOMAIN task[s].queries :
                /\ task[s].queries[k].query = "get_all_facilities"
                /\ task[s].queries[k].raised \/ task[s].queries[k].rows = 0)
        => /\ task[s].response.status = 200
           /\ task[s].response.facilities_found = 0
           /\ task[s].response.facilities = << >>
           /\ task[s].response.message = "No facilities found in the system"

\* The road distance from the user of the request to the facility of a row
\* exceeds the request's max_distance_km.
BeyondLimit(request, row) ==
    /\ request.max_distance_km # None
    /\ RoundHalfEven(OsrmRouteMeters(request.user_latitude, request.user_longitude,
                                     row.latitude, row.longitude), 10)
           > request.max_distance_km

\* The stock rows a healthy repository returns for the type or the name of
\* a type- or name-driven request (no row for any other request).
MatchingStock(t) ==
    IF t.op = "finder" /\ QueryIssuedBy(t, "get_facilities_by_antivenom_type")
    THEN DatabaseManager_get_facilities_by_antivenom_type(
             db, t.request.antivenom_type, TRUE).rows
    ELSE IF t.op = "listing" /\ t.request.antivenom_name # NoneStr
    THEN RowsByName(db, t.request.antivenom_name)
    ELSE << >>

\* C15: no facility of a non-fallback result has a resolved distance_km
\* above the request's max_distance_km, and a type- or name-driven request
\* whose facilities with matching stock all lie beyond the limit is answered
\* with facilities_found = 0, no facility and the non-fallback message.
C15_NothingBeyondMaxDistance ==
    \A s \in Slots :
        LET t == task[s]
            r == t.response
            rows == MatchingStock(t)
        IN  /\ (Answered(s) /\ r.message = FoundMessage) =>
                   \A k \in DOMAIN r.facilities :
                       r.facilities[k].route_info # << >>
                       => r.facilities[k].route_info[1].distance_km
                              <= t.request.max_distance_km
            /\ (/\ t.pc = "done"
                /\ \A k \in DOMAIN t.queries : t.queries[k].up
                /\ rows # << >>
                /\ \A k \in DOMAIN rows :
                       ~MissingCoordinates(rows[k]) /\ BeyondLimit(t.request, rows[k]))
               => /\ r.status = 200
                  /\ r.facilities_found = 0
                  /\ r.facilities = << >>
                  /\ r.message = "No facilities found within specified distance"

\* The snakes table holds no snake of that common name.
UnknownSnake(common_name) ==
    \A k \in DOMAIN SnakesTable :
        Lower(SnakesTable[k].common_name) # Lower(common_name)

\* C16: once the repository has answered the name lookup of a finder request
\* that gives only a common name no snake has, the request has ended with a
\* 404: the lookup is its last repository call, no stock query and no
\* all-facilities query was issued, and the resolver was not called.
C16_UnknownNameIsNotFound ==
    \A s \in Slots :
        LET t == task[s]
        IN  (/\ t.op = "finder"
             /\ t.request.snake_id = None
             /\ t.request.snake_common_name # NoneStr
             /\ UnknownSnake(t.request.snake_common_name)
             /\ \E k \in DOMAIN t.queries :
                    t.queries[k].query = "get_snake_by_common_name" /\ t.queries[k].up)
            => /\ t.pc = "done"
               /\ t.response.status = 404
               /\ \A k \in DOMAIN t.queries :
                      /\ t.queries[k].query = "get_snake_by_common_name"
                      /\ t.queries[k].up <=> k = Len(t.queries)
               /\ t.calls = << >>
               /\ t.facilities_with_distance = << >>

\* A lookup of an unknown name that was answered on its second attempt.
C16_Witness ==
    \E s \in Slots :
        /\ task[s].pc = "done"
        /\ task[s].response.status = 404
        /\ UnknownSnake(task[s].request.snake_common_name)
        /\ Len(task[s].queries) = 2
        /\ task[s].queries[2].up

\* C17: a finder request that carries an antivenom_type other than
\* 'polyvalent' and 'monovalent' ends in a 400 before any repository query.
C17_UnknownTypeIsRejected ==
    \A s \in Slots :
        (/\ task[s].op = "finder" /\ task[s].pc = "done"
         /\ task[s].request.antivenom_type \notin {NoneStr, "polyvalent", "monovalent"})
        => /\ task[s].response.status = 400
           /\ task[s].queries = << >>

\* The stock queries of the primary search, and its repository calls.
StockQueries ==
    {"get_facilities_with_antivenom", "get_facilities_by_antivenom_type",
     "get_facilities_with_antivenom_by_name"}

PrimaryQueries == StockQueries \cup {"get_snake_by_common_name"}

\* C18: once the stock query of the primary search has failed, the request
\* has ended with a 500: the stock query is its last repository call, no
\* all-facilities query was issued and the resolver was not called.
C18_StockFailureIsServiceError ==
    \A s \in Slots :
        LET t == task[s]
        IN  \A k \in DOMAIN t.queries :
                (/\ t.queries[k].query \in StockQueries
                 /\ ~t.queries[k].up \/ t.queries[k].raised)
                => /\ t.pc = "done"
                   /\ t.response.status = 500
                   /\ k = Len(t.queries)
                   /\ ~QueryIssued(s, "get_all_facilities")
                   /\ t.calls = << >>
                   /\ t.facilities_with_distance = << >>

\* A by-snake stock query that failed after the name lookup had succeeded.
C18_Witness ==
    \E s \in Slots :
        /\ task[s].pc = "done"
        /\ task[s].response.status = 500
        /\ Len(task[s].queries) = 2
        /\ task[s].queries[1].query = "get_snake_by_common_name"
        /\ task[s].queries[1].up
        /\ task[s].queries[2].query = "get_facilities_with_antivenom"
        /\ ~task[s].queries[2].up

\* C19: a request ends with 200, 400, 404 or 500, and with 500 only when a
\* repository call of the primary search (name lookup or stock query) failed.
C19_ServiceErrorOnlyFromPrimaryQueries ==
    \A s \in Slots :
        task[s].pc = "done" =>
            /\ task[s].response.status \in {200, 400, 404, 500}
            /\ task[s].response.status = 500 =>
                   \E k \in DOMAIN task[s].queries :
                       /\ task[s].queries[k].query \in PrimaryQueries
                       /\ task[s].queries[k].raised

\* C20: a name-driven listing request (with a max_distance_km) made after
\* init_db against a healthy backing store is answered with a success
\* envelope whose facilities all have a stock row of a product of that name.
C20_NameDrivenListingAnswers ==
    \A s \in Slots :
        LET t == task[s]
            rows == RowsByName(db, t.request.antivenom_name)
        IN  (/\ t.pc = "done" /\ t.op = "listing"
             /\ t.request.antivenom_name # NoneStr
             /\ t.request.max_distance_km # None
             /\ \A k \in DOMAIN t.queries : t.queries[k].up)
            => /\ t.response.status = 200
               /\ \A i \in DOMAIN t.response.facilities :
                      \E k \in DOMAIN rows :
                          rows[k].facility_id = t.response.facilities[i].facility_id

\* The stock queries a handler has issued so far.
StockQueriesOf(t) ==
    { k \in DOMAIN t.queries : t.queries[k].query \in StockQueries }

\* The stock query the field precedence selects for a request.
SelectedQuery(op, request) ==
    IF op = "finder"
    THEN IF request.snake_id # None \/ request.snake_common_name # NoneStr
         THEN "get_facilities_with_antivenom"
         ELSE "get_facilities_by_antivenom_type"
    ELSE IF request.antivenom_name # NoneStr
         THEN "get_facilities_with_antivenom_by_name"
         ELSE "get_facilities_with_antivenom"

\* C21: a request issues at most one stock query, the one its fields select
\* by precedence (finder: snake id, else resolved snake name, over antivenom
\* type; listing: antivenom name over snake id); a finder request with a
\* snake id searches by that id and performs no name lookup.
C21_OneStockQueryByPrecedence ==
    \A s \in Slots :
        LET t == task[s]
        IN  /\ Cardinality(StockQueriesOf(t)) <= 1
            /\ \A k \in StockQueriesOf(t) :
                   t.queries[k].query = SelectedQuery(t.op, t.request)
            /\ (t.op = "finder" /\ t.request.snake_id # None)
                   => /\ ~QueryIssued(s, "get_snake_by_common_name")
                      /\ t.snake_id = t.request.snake_id
            /\ (t.op = "finder" /\ t.request.snake_id = None /\ StockQueriesOf(t) # {}
                /\ t.request.snake_common_name # NoneStr)
                   => /\ QueryAnswered(s, "get_snake_by_common_name")
                      /\ \E k \in DOMAIN SnakesTable :
                             /\ SnakesTable[k].snake_id = t.snake_id
                             /\ Lower(SnakesTable[k].common_name)
                                    = Lower(t.request.snake_common_name)

\* A finder request that gave a snake id, a common name and an antivenom
\* type, and whose stock query by snake returned rows.
C21_Witness ==
    \E s \in Slots :
        /\ task[s].op = "finder" /\ task[s].pc = "done"
        /\ task[s].request.snake_id # None
        /\ task[s].request.snake_common_name # NoneStr
        /\ task[s].request.antivenom_type # NoneStr
        /\ QueryAnswered(s, "get_facilities_with_antivenom")
        /\ task[s].facilities_data # << >>

\* The index of the first row of facility id among rows (0 when it has none).
FirstRow(rows, id) ==
    IF \E k \in DOMAIN rows : rows[k].facility_id = id
    THEN CHOOSE k \in DOMAIN rows :
             /\ rows[k].facility_id = id
             /\ \A x \in 1..(k - 1) : rows[x].facility_id # id
    ELSE 0

\* The rows the candidates of a request were assembled from: those of the
\* all-facilities query in the fallback, the stock rows otherwise.
CandidateRows(t) ==
    IF QueryIssuedBy(t, "get_all_facilities") THEN t.all_facilities
    ELSE t.facilities_data

\* Facilities i and j of a result have the same resolved distance_km.
Tied(r, i, j) ==
    /\ r.facilities[i].route_info # << >>
    /\ r.facilities[j].route_info # << >>
    /\ r.facilities[i].route_info[1].distance_km
           = r.facilities[j].route_info[1].distance_km
    /\ r.facilities[i].facility_id # r.facilities[j].facility_id

\* C22: two facilities of a result that have the same distance_km are listed
\* in the order in which the repository returned their first rows (the stock
\* rows, or the rows of the all-facilities query in the fallback), in the
\* full primary result and in the fallback's nearest five.
C22_TiesKeepRepositoryOrder ==
    \A s \in Slots :
        Answered(s) =>
            LET r == task[s].response
                rows == CandidateRows(task[s])
            IN  \A i, j \in DOMAIN r.facilities :
                    (i < j /\ Tied(r, i, j))
                    => FirstRow(rows, r.facilities[i].facility_id)
                           < FirstRow(rows, r.facilities[j].facility_id)

\* A fallback result cut to the nearest five, reordered by the sort, in
\* which two facilities are equally far.
C22_Witness ==
    \E s \in Slots :
        LET r == task[s].response
        IN  /\ Answered(s)
            /\ QueryIssued(s, "get_all_facilities")
            /\ Len(task[s].facilities_with_distance) > FallbackLimit
            /\ Len(r.facilities) = FallbackLimit
            /\ r.facilities
                   # Facilities(SubSeq(task[s].facilities_with_distance, 1, FallbackLimit))
            /\ \E i, j \in DOMAIN r.facilities : i < j /\ Tied(r, i, j)

\* The attempts of the name lookup a handler has made, and the failed ones.
LookupsOf(t) ==
    { k \in DOMAIN t.queries : t.queries[k].query = "get_snake_by_common_name" }

FailedLookupsOf(t) == { k \in LookupsOf(t) : t.queries[k].raised }

\* C26: get_snake_by_common_name makes at most 3 attempts; an attempt that
\* completes (a row, or no row) is the last one; it waits 1 second and then 2
\* seconds between failed attempts; after the third failed attempt the error
\* is re-raised and the finder answers 500, and a 404 is answered only for a
\* completed attempt that found no row.
C26_LookupRetries ==
    \A s \in Slots :
        LET t == task[s]
            failed == Cardinality(FailedLookupsOf(t))
        IN  /\ Cardinality(LookupsOf(t)) <= max_retries
            /\ \A k \in LookupsOf(t) :
                   ~t.queries[k].raised => \A j \in LookupsOf(t) : j <= k
            /\ Len(t.retry_delays) = Min(failed, max_retries - 1)
            /\ \A k \in DOMAIN t.retry_delays : t.retry_delays[k] = 2 ^ (k - 1)
            /\ failed = max_retries
                   => /\ t.pc = "done"
                      /\ t.response.status = 500
                      /\ Len(t.queries) = max_retries
            /\ (\E k \in LookupsOf(t) : ~t.queries[k].raised /\ t.queries[k].rows = 0)
                   => t.pc = "done" /\ t.response.status = 404
            /\ t.response.status = 404
                   => /\ t.queries # << >>
                      /\ ~t.queries[Len(t.queries)].raised
                      /\ t.queries[Len(t.queries)].rows = 0

\* A finder request whose three lookup attempts all failed.
C26_Witness ==
    \E s \in Slots :
        /\ task[s].pc = "done"
        /\ task[s].response.status = 500
        /\ Cardinality(FailedLookupsOf(task[s])) = max_retries
        /\ task[s].retry_delays = << 1, 2 >>

\* C28: a facility for which the resolver returned success = false without a
\* distance is still listed, with a null route_info, after every facility
\* that has a resolved distance (unless the fallback's cut to five removes
\* it), and the request is answered with a success envelope.
C28_UnresolvedFacilityRanksLast ==
    \A s \in Slots :
        LET t == task[s]
            r == t.response
            items == t.facilities_with_distance
            cut == QueryIssued(s, "get_all_facilities") /\ Len(items) > FallbackLimit
        IN  (/\ t.pc = "done"
             /\ t.request.max_distance_km # None
             /\ \E k \in DOMAIN items : items[k].distance_km = None)
            => /\ r.status = 200
               /\ \A k \in DOMAIN items :
                      (items[k].distance_km = None /\ ~cut)
                      => \E i \in DOMAIN r.facilities :
                             /\ r.facilities[i].facility_id = items[k].facility.facility_id
                             /\ r.facilities[i].route_info = << >>
                             /\ \A j \in DOMAIN r.facilities :
                                    r.facilities[j].route_info # << >> => j < i

\* The rows a finished request went through in its loops.
LoopedRows(t) ==
    IF t.op = "finder"
    THEN SeqToSet(t.facilities_data) \cup SeqToSet(t.all_facilities)
    ELSE { t.facility_groups[k].facility_data : k \in DOMAIN t.facility_groups }

\* C29: every facility a finished request went through whose latitude and
\* longitude are both present (0 included) had its distance resolved; only
\* a facility with an absent or null coordinate is dropped by the check.
C29_ZeroCoordinateIsResolved ==
    \A s \in Slots :
        task[s].pc = "done" =>
            \A row \in LoopedRows(task[s]) :
                ~MissingCoordinates(row)
                => \E c \in DOMAIN task[s].calls :
                       task[s].calls[c].facility_id = row.facility_id

\* C30: a request with a null max_distance_km whose fields are valid, whose
\* snake is known and whose primary repository calls succeeded ends with a
\* success envelope, whichever path builds it.
C30_NullMaxDistanceIsNoLimit ==
    \A s \in Slots :
        LET t == task[s]
        IN  (/\ t.pc = "done"
             /\ t.request.max_distance_km = None
             /\ t.response.status \notin {400, 404}
             /\ \A k \in DOMAIN t.queries :
                    t.queries[k].query \in PrimaryQueries => ~t.queries[k].raised)
            => t.response.status = 200

\* ===================================================================
\* Runs against a held environment
\* ===================================================================
\* The specifications below hold the environment of a request fixed: the
\* backing store answers every query (up = TRUE) and the routing provider
\* does the same thing every time it is asked for a route to one facility.
HeldOutcome(facility_id) ==
    CASE facility_id = 1 -> "ok"
      [] facility_id = 2 -> "timeout"
      [] facility_id = 3 -> "timeout"
      [] facility_id = 4 -> "no_distance"
      [] facility_id = 5 -> "ok"
      [] facility_id = 6 -> "http_error"
      [] OTHER -> "ok"

\* The facility the handler t is about to resolve (pc is one of the resolve
\* steps).
CurrentFacility(t) ==
    IF t.pc = "fallback_resolve" THEN t.all_facilities[t.i]
    ELSE IF t.op = "finder" THEN t.facilities_data[t.i]
    ELSE t.facility_groups[t.i].facility_data

\* The next step of handler t in the held environment.
HeldStep(t, store, g) ==
    CASE t.pc = "lookup" -> await_get_snake_by_common_name_local(t, TRUE)
      [] t.pc = "all_facilities" -> find_antivenom_all_facilities_local(t, store, TRUE)
      [] t.pc = "fallback_resolve" ->
             find_antivenom_fallback_resolve_local(
                 t, HeldOutcome(CurrentFacility(t).facility_id))
      [] t.pc = "resolve" /\ t.op = "finder" ->
             find_antivenom_resolve_local(
                 t, HeldOutcome(CurrentFacility(t).facility_id))
      [] t.pc = "resolve" /\ t.op = "listing" ->
             get_facilities_with_antivenom_resolve_local(
                 t, HeldOutcome(CurrentFacility(t).facility_id))
      [] t.pc \in {"stock_snake", "stock_type"} /\ t.op = "finder" ->
             find_antivenom_stock_local(t, store, g, TRUE)
      [] t.pc \in {"stock_snake", "stock_name"} /\ t.op = "listing" ->
             get_facilities_with_antivenom_stock_local(t, store, g, TRUE)

\* A handler run from t to its end with no other request in the process.
RECURSIVE RunAlone(_, _, _)
RunAlone(t, store, g) ==
    IF t.pc = "done" THEN t ELSE RunAlone(HeldStep(t, store, g), store, g)

\* The locals at the end of a request that is handled alone, first in its
\* process, against store.
Alone(op, request, store) ==
    RunAlone(IF op = "finder" THEN find_antivenom_local(request)
             ELSE get_facilities_with_antivenom_local(request),
             store, init_db)

\* The stores and requests of the held runs.
HeldStores ==
    { [facilities |-> FacilityTable(n, k, "lat_text"),
       stock |-> StockTable(m, 0, "none")] :
        n \in {2, MaxFac}, k \in {0, 1}, m \in {0, MaxStock} }

HeldFinderRequests ==
    [snake_common_name : {NoneStr, "Cobra"},
     snake_id : {None, 2},
     antivenom_type : {NoneStr, "monovalent"},
     antivenom_name : {NoneStr},
     user_latitude : UserLatitudes,
     user_longitude : UserLongitudes,
     max_distance_km : {None, FinderDefaultMaxKm}]

HeldListingRequests ==
    [snake_common_name : {NoneStr},
     snake_id : {None, 1},
     antivenom_type : {NoneStr},
     antivenom_name : {NoneStr, "PCAV"},
     user_latitude : UserLatitudes,
     user_longitude : UserLongitudes,
     max_distance_km : {ListingDefaultMaxKm}]

\* One step, after its start, of the handler of slot s in the held
\* environment.
HeldNext(s) ==
    \/ await_get_snake_by_common_name(s, TRUE)
    \/ find_antivenom_stock(s, TRUE)
    \/ /\ task[s].op = "finder" /\ task[s].pc = "resolve"
       /\ find_antivenom_resolve(s, HeldOutcome(CurrentFacility(task[s]).facility_id))
    \/ find_antivenom_all_facilities(s, TRUE)
    \/ /\ task[s].pc = "fallback_resolve"
       /\ find_antivenom_fallback_resolve(
              s, HeldOutcome(CurrentFacility(task[s]).facility_id))
    \/ get_facilities_with_antivenom_stock(s, TRUE)
    \/ /\ task[s].op = "listing" /\ task[s].pc = "resolve"
       /\ get_facilities_with_antivenom_resolve(
              s, HeldOutcome(CurrentFacility(task[s]).facility_id))

\* ------------------------------------------------- two concurrent requests
\* Two requests handled by one process: each handler runs up to its next
\* await, and any handler that is not finished may run next.
InitConcurrent ==
    /\ db \in HeldStores
    /\ globals = init_db
    /\ task = [s \in Slots |-> IdleTask]
    /\ lastRoute = NoRoute

NextConcurrent ==
    \E s \in Slots :
        \/ \E request \in HeldFinderRequests : find_antivenom(s, request)
        \/ \E request \in HeldListingRequests : get_facilities_with_antivenom(s, request)
        \/ HeldNext(s)

SpecConcurrent == InitConcurrent /\ [][NextConcurrent]_vars

\* ------------------------------------------------- the same request twice
\* Slot 1 handles a request to its end; slot 2 then handles the same request.
InitTwice == InitConcurrent

NextTwice ==
    \/ \E request \in HeldFinderRequests : find_antivenom(1, request)
    \/ \E request \in HeldListingRequests : get_facilities_with_antivenom(1, request)
    \/ HeldNext(1)
    \/ /\ task[1].pc = "done" /\ task[1].op = "finder"
       /\ find_antivenom(2, task[1].request)
    \/ /\ task[1].pc = "done" /\ task[1].op = "listing"
       /\ get_facilities_with_antivenom(2, task[1].request)
    \/ HeldNext(2)

SpecTwice == InitTwice /\ [][NextTwice]_vars

C24_ConcurrentRequestsAreIsolated ==
    /\ [](\A s \in Slots :
              task[s].pc = "done" => task[s] = Alone(task[s].op, task[s].request, db))
    /\ [][/\ globals.osrm_client # NoneStr => globals' = globals
          /\ globals'.supabase = globals.supabase
          /\ globals'.db_pool = globals.db_pool]_vars

\* Slot 1 was answered with facilities while slot 2, which has resolved a
\* distance already, waits for its next one.
C24_Witness ==
    /\ Answered(1)
    /\ task[1].response.facilities # << >>
    /\ task[2].pc \in {"resolve", "fallback_resolve"}
    /\ task[2].calls # << >>
    /\ task[2].request # task[1].request

\* The names of the repository queries a handler issued, in order.
QueryNames(t) == [k \in DOMAIN t.queries |-> t.queries[k].query]

\* C25: two finder requests with the same snake identity, origin and
\* max_distance_km, one with and one without an antivenom_type, issue the
\* same repository queries and return the same status and facility list.
C25_TypeDoesNotChangeIdentitySearch ==
    \A a, b \in Slots :
        (/\ task[a].pc = "done" /\ task[b].pc = "done"
         /\ task[a].op = "finder" /\ task[b].op = "finder"
         /\ \/ task[a].request.snake_id # None
            \/ task[a].request.snake_common_name # NoneStr
         /\ [task[a].request EXCEPT !.antivenom_type = NoneStr]
                = [task[b].request EXCEPT !.antivenom_type = NoneStr])
        => /\ QueryNames(task[a]) = QueryNames(task[b])
           /\ task[a].response.status = task[b].response.status
           /\ task[a].response.facilities = task[b].response.facilities

\* C27: two identity-driven finder requests that differ only in
\* max_distance_km and both reach the fallback return the same status and
\* facility list.
C27_FallbackIgnoresMaxDistance ==
    \A a, b \in Slots :
        (/\ task[a].pc = "done" /\ task[b].pc = "done"
         /\ task[a].op = "finder" /\ task[b].op = "finder"
         /\ QueryAnswered(a, "get_all_facilities")
         /\ QueryAnswered(b, "get_all_facilities")
         /\ [task[a].request EXCEPT !.max_distance_km = None]
                = [task[b].request EXCEPT !.max_distance_km = None])
        => /\ task[a].response.status = task[b].response.status
           /\ task[a].response.facilities = task[b].response.facilities

====
